---------------------------- MODULE Spec2Model ----------------------------
(***************************************************************************)
(* A model of the Twitter content handler                                  *)
(* (packages/content-handler/src/websites/twitter-handler.ts) and of the   *)
(* newsletter subscription service (saveSubscription / unsubscribe).       *)
(*                                                                         *)
(* Strings whose characters matter (URLs, mailto targets) are sequences of *)
(* one-character strings, so that the regular expressions of the source    *)
(* are evaluated character by character.                                   *)
(***************************************************************************)
EXTENDS Integers, Sequences, FiniteSets, TLC

VARIABLES
    token,        \* TWITTER_BEARER_TOKEN, read once from the environment
    hPc,          \* position of the preHandle call
    hUrl,         \* its url argument
    hAge,         \* age in days of the conversation the url points at
    hEmbed,       \* the oEmbed response: <<>> or <<response>>
    hResult,      \* what preHandle returned: <<>> or <<result>>
    hInvoked,     \* the fetchers the current preHandle call has invoked
    pureCall,     \* the last call of shouldPreHandle or tweetIdFromStatusUrl
    sPc,          \* getTweetIds: position of each call in progress
    sAuthor,      \* its author argument
    sCtx,         \* its context variable: 0 (undefined) or a context's number
    sPending,     \* the value its return statement has set for after finally
    sOut,         \* how it completed: returned ids, or threw
    ctxs,         \* the browser's incognito contexts, in order of creation
    sStarted,     \* the calls of getTweetIds started so far
    tPc,          \* API and thread fetchers: position of the call
    tFn,          \* the function called
    tIds,         \* the ids to resolve
    tResp,        \* the API's response
    tOut,         \* how the call completed
    tReqs,        \* the requests the call has sent
    tChecks,      \* the times the call has tested the bearer token
    subs,         \* the Subscription table: the row with id i is subs[i]
    svPc,         \* saveSubscription: position of each call in progress
    svIn,         \* its input
    svExisting,   \* its existingSubscription: 0 (null) or a row's id
    svRet,        \* the id it returns
    uPc,          \* unsubscribe: position of the call
    uSub,         \* its subscription argument
    uSent,        \* what sendUnsubscribeEmail returned
    uEmail        \* what became of the unsubscribe email

vars == <<token, hPc, hUrl, hAge, hEmbed, hResult, hInvoked, pureCall,
          sPc, sAuthor, sCtx, sPending, sOut, ctxs, sStarted,
          tPc, tFn, tIds, tResp, tOut, tReqs, tChecks,
          subs, svPc, svIn, svExisting, svRet, uPc, uSub, uSent, uEmail>>

HandlerVars == <<hPc, hUrl, hAge, hEmbed, hResult, hInvoked>>
ScrapeVars == <<sPc, sAuthor, sCtx, sPending, sOut, ctxs, sStarted>>

ThreadVars == <<tPc, tFn, tIds, tResp, tOut, tReqs, tChecks>>
SaveVars == <<svPc, svIn, svExisting, svRet>>
UnsubVars == <<uPc, uSub, uSent, uEmail>>
SubsVars == <<subs, SaveVars, UnsubVars>>
NotScrape == <<token, pureCall, HandlerVars, ThreadVars, SubsVars>>
NotThread == <<token, pureCall, HandlerVars, ScrapeVars, SubsVars>>
NotHandler == <<ScrapeVars, ThreadVars, SubsVars>>
NotSubs == <<token, pureCall, HandlerVars, ScrapeVars, ThreadVars>>

Undefined == "undefined"

\* an undefined or null string, where strings are character sequences (no
\* string the model tells apart from undefined is empty)
NoStr == <<>>

(***************************************************************************)
(* Characters and literals.                                                *)
(***************************************************************************)
Digits == {"0", "1", "2", "3", "4", "5", "6", "7", "8", "9"}

Letters ==
    {"a", "b", "c", "d", "e", "f", "g", "h", "i", "j", "k", "l", "m", "n",
     "o", "p", "q", "r", "s", "t", "u", "v", "w", "x", "y", "z"}

\* \w of a JavaScript regular expression (the upper-case letters are left
\* out: no input of the model holds one)
WordChars == Letters \cup Digits \cup {"_"}

L_twitter == <<"t", "w", "i", "t", "t", "e", "r">>
L_x == <<"x">>
L_dotcom_slash == <<".", "c", "o", "m", "/">>
L_hashbang == <<"#", "!", "/">>
L_slash_status == <<"/", "s", "t", "a", "t", "u", "s">>
L_es == <<"e", "s">>
L_https == <<"h", "t", "t", "p", "s", ":", "/", "/">>

\* does literal lit occur in s at position i
LitAt(s, i, lit) ==
    /\ i >= 1
    /\ i + Len(lit) - 1 <= Len(s)
    /\ SubSeq(s, i, i + Len(lit) - 1) = lit

\* the position after the longest run of characters of class cls from i on
RECURSIVE RunEnd(_, _, _)
RunEnd(s, i, cls) ==
    IF i <= Len(s) /\ s[i] \in cls THEN RunEnd(s, i + 1, cls) ELSE i

\* String.prototype.match found nothing: null
NoMatch == <<>>

(***************************************************************************)
(* TWITTER_URL_MATCH: one of "twitter" or "x" (group 1), ".com/", an       *)
(* optional "#!/", one or more word characters (group 2), "/status", an    *)
(* optional "es", "/", one or more digits (group 3), and optionally "/"    *)
(* with the rest of the line; not anchored at either end.  Here it is      *)
(* tried at position i.  The result is the match array, whose JavaScript   *)
(* index k is index k + 1 here: the whole match, then the three capture    *)
(* groups; NoMatch when it does not match.                                 *)
(* Every quantifier of the expression is followed by a character outside   *)
(* its class, so the greedy choice is the only one that can succeed.       *)
(***************************************************************************)
MatchAt(s, i) ==
    LET g1 == IF LitAt(s, i, L_twitter) THEN L_twitter
              ELSE IF LitAt(s, i, L_x) THEN L_x ELSE <<>>
        j1 == i + Len(g1)
        j2 == j1 + Len(L_dotcom_slash)
        j3 == IF LitAt(s, j2, L_hashbang) THEN j2 + Len(L_hashbang) ELSE j2
        j4 == RunEnd(s, j3, WordChars)
        j5 == j4 + Len(L_slash_status)
        j6 == IF LitAt(s, j5, L_es) THEN j5 + Len(L_es) ELSE j5
        j7 == j6 + 1
        j8 == RunEnd(s, j7, Digits)
        last == IF LitAt(s, j8, <<"/">>) THEN Len(s) ELSE j8 - 1
    IN  IF /\ g1 # <<>>
           /\ LitAt(s, j1, L_dotcom_slash)
           /\ j4 > j3
           /\ LitAt(s, j4, L_slash_status)
           /\ LitAt(s, j6, <<"/">>)
           /\ j8 > j7
        THEN <<SubSeq(s, i, last), g1, SubSeq(s, j3, j4 - 1), SubSeq(s, j7, j8 - 1)>>
        ELSE NoMatch

\* the expression has no g or y flag: the search starts at the first
\* character and takes the leftmost position where it matches
RECURSIVE SearchFrom(_, _)
SearchFrom(s, i) ==
    IF i > Len(s) THEN NoMatch
    ELSE LET m == MatchAt(s, i)
         IN  IF m # NoMatch THEN m ELSE SearchFrom(s, i + 1)

\* url.toString().match(TWITTER_URL_MATCH)
TWITTER_URL_MATCH(s) == SearchFrom(s, 1)

\* TwitterHandler.shouldPreHandle
ShouldPreHandle(url) == TWITTER_URL_MATCH(url) # NoMatch

\* tweetIdFromStatusUrl: match?.[2]
TweetIdFromStatusUrl(url) ==
    LET match == TWITTER_URL_MATCH(url)
    IN  IF match = NoMatch THEN NoStr ELSE match[2 + 1]

(***************************************************************************)
(* The urls handed to the handler.                                         *)
(***************************************************************************)
U_alice == <<"/", "a", "l", "_", "1">>
U_id == <<"/", "4", "2", "7">>
U_status_id == L_slash_status \o U_id

Urls ==
    { L_https \o L_twitter \o <<".", "c", "o", "m">> \o U_alice \o U_status_id,
      L_https \o L_x \o <<".", "c", "o", "m">> \o U_alice \o U_status_id,
      L_x \o <<".", "c", "o", "m", "/", "#", "!">> \o U_alice
          \o L_slash_status \o L_es \o U_id \o <<"/", "p", "h", "o", "t", "o", "/", "1">>,
      L_https \o <<"m", "o", "b", "i", "l", "e", ".">> \o L_twitter
          \o <<".", "c", "o", "m">> \o U_alice \o U_status_id,
      L_https \o L_twitter \o <<".", "c", "o", "m", "/", "7", "7">> \o U_status_id,
      \* not of the status shape
      L_https \o L_twitter \o <<".", "c", "o", "m">> \o U_alice,
      L_https \o L_twitter \o <<".", "c", "o", "m">> \o U_alice \o L_slash_status \o <<"/">>,
      L_https \o L_twitter \o <<".", "c", "o", "m", "/", "a", "-", "b">> \o U_status_id,
      L_https \o L_twitter \o <<".", "o", "r", "g">> \o U_alice \o U_status_id,
      L_https \o L_x \o <<".", "c", "o", "m">> \o U_alice \o L_slash_status
          \o <<"e">> \o U_id,
      \* another site whose domain ends in x.com / twitter.com
      L_https \o <<"n", "e", "t", "f", "l", "i">> \o L_x \o <<".", "c", "o", "m">>
          \o U_alice \o U_status_id,
      L_https \o <<"n", "o", "t">> \o L_twitter \o <<".", "c", "o", "m">>
          \o U_alice \o U_status_id }

\* the canonical url the oEmbed service reports for the tweet
CanonicalUrl ==
    L_https \o L_twitter \o <<".", "c", "o", "m">> \o U_alice \o U_status_id

(***************************************************************************)
(* titleForTweet.  A text is the sequence of its whitespace-separated      *)
(* tokens; the pattern http followed by non-space characters matches a     *)
(* token as a whole, and replace() without the g flag replaces the first   *)
(* match only.                                                             *)
(***************************************************************************)
HttpTokens == {"http://a", "http://b"}

RECURSIVE StripFirstUrl(_)
StripFirstUrl(text) ==
    IF text = <<>> THEN <<>>
    ELSE IF Head(text) \in HttpTokens THEN <<"">> \o Tail(text)
    ELSE <<Head(text)>> \o StripFirstUrl(Tail(text))

TitleForTweet(author, text) == <<author, "on", "X:">> \o StripFirstUrl(text)

(***************************************************************************)
(* The oEmbed responses.  html is what parseHTML makes of the fragment:    *)
(* whether it holds a p element and an a element whose href contains       *)
(* /status/, and their text.                                               *)
(***************************************************************************)
Embeds ==
    { [author_name |-> "Alice", url |-> CanonicalUrl,
       html |-> [hasP |-> TRUE, p |-> <<"see", "http://a", "and", "http://b">>,
                 hasA |-> TRUE, a |-> "June 1, 2023"]],
      [author_name |-> "Alice", url |-> CanonicalUrl,
       html |-> [hasP |-> TRUE, p |-> <<"hello">>, hasA |-> FALSE, a |-> ""]],
      [author_name |-> "Bob", url |-> CanonicalUrl,
       html |-> [hasP |-> FALSE, p |-> <<>>, hasA |-> FALSE, a |-> ""]] }

\* the age in days of the conversation a url points at: inside and outside
\* the search API's recency window
Ages == {2, 30}

\* the fetchers of the two thread-unrolling paths
RecentPath == {"getRecentTweets", "getTweetThread"}
OldPath == {"getOldTweets", "getTweetIds", "getTweetsByIds"}

(***************************************************************************)
(* TwitterHandler.preHandle, one call at a time.                           *)
(***************************************************************************)
PreHandleCall ==
    /\ hPc = "idle"
    /\ \E u \in Urls, age \in Ages :
         /\ hUrl' = u
         /\ hAge' = age
    /\ hPc' = "getEmbedTweet"
    /\ UNCHANGED NotHandler
    /\ UNCHANGED <<token, pureCall, hEmbed, hResult, hInvoked>>

\* getEmbedTweet: axios.get resolves with the oEmbed document
GetEmbedTweetOk ==
    /\ hPc = "getEmbedTweet"
    /\ \E e \in Embeds : hEmbed' = <<e>>
    /\ hInvoked' = hInvoked \cup {"getEmbedTweet"}
    /\ hPc' = "assemble"
    /\ UNCHANGED NotHandler
    /\ UNCHANGED <<token, pureCall, hUrl, hAge, hResult>>

\* getEmbedTweet: axios.get rejects; preHandle does not catch, so its own
\* promise rejects with the same error
GetEmbedTweetFail ==
    /\ hPc = "getEmbedTweet"
    /\ hInvoked' = hInvoked \cup {"getEmbedTweet"}
    /\ hPc' = "failed"
    /\ UNCHANGED NotHandler
    /\ UNCHANGED <<token, pureCall, hUrl, hAge, hEmbed, hResult>>

\* the comment on getTweetIds: tweets older than 7 days are out of the
\* search API's reach
RecencyWindowDays == 7

\* preHandle unrolling the thread by the age of the conversation
PreHandleThreadCallsByAge(age) ==
    IF age <= RecencyWindowDays THEN RecentPath ELSE OldPath

\* the thread fetchers preHandle calls once the oEmbed document is there:
\* none, whatever the age of the conversation
PreHandleThreadCalls(age) == {}

\* preHandle echoing the url of the oEmbed document instead of its argument
PreHandleResultEmbedUrl(url, embedTweet) ==
    [content |-> [creator |-> embedTweet.author_name,
                  description |-> embedTweet.html.p,
                  published_time |-> embedTweet.html.a,
                  body |-> embedTweet.html],
     url |-> embedTweet.url,
     title |-> TitleForTweet(embedTweet.author_name, embedTweet.html.p)]

\* what preHandle returns: title and content from the parsed fragment,
\* and the url it was given
PreHandleResult(url, embedTweet) ==
    LET dom == embedTweet.html
        tweetText == IF dom.hasP THEN dom.p ELSE <<>>
        title == TitleForTweet(embedTweet.author_name, tweetText)
        publisedDate == IF dom.hasA THEN dom.a ELSE ""
        content == [creator |-> embedTweet.author_name,
                    description |-> tweetText,
                    published_time |-> publisedDate,
                    body |-> embedTweet.html]
    IN  [content |-> content, url |-> url, title |-> title]

\* the rest of preHandle: parse the fragment, build title and content, return
PreHandleAssemble ==
    /\ hPc = "assemble"
    /\ hResult' = <<PreHandleResult(hUrl, hEmbed[1])>>
    /\ hInvoked' = hInvoked \cup PreHandleThreadCalls(hAge)
    /\ hPc' = "done"
    /\ UNCHANGED NotHandler
    /\ UNCHANGED <<token, pureCall, hUrl, hAge, hEmbed>>

\* the caller has taken the result (or the error); the handler is free again
PreHandleSettled ==
    /\ hPc \in {"done", "failed"}
    /\ hPc' = "idle"
    /\ hUrl' = NoStr
    /\ hAge' = 2
    /\ hEmbed' = <<>>
    /\ hResult' = <<>>
    /\ hInvoked' = {}
    /\ UNCHANGED NotHandler
    /\ UNCHANGED <<token, pureCall>>

\* shouldPreHandle(url), called by the pipeline on any url
ShouldPreHandleCall ==
    /\ \E u \in Urls :
         pureCall' = [fn |-> "shouldPreHandle", url |-> u,
                      bool |-> ShouldPreHandle(u), str |-> NoStr]
    /\ UNCHANGED NotHandler
    /\ UNCHANGED <<token, HandlerVars>>

\* tweetIdFromStatusUrl(url)
TweetIdFromStatusUrlCall ==
    /\ \E u \in Urls :
         pureCall' = [fn |-> "tweetIdFromStatusUrl", url |-> u,
                      bool |-> FALSE, str |-> TweetIdFromStatusUrl(u)]
    /\ UNCHANGED NotHandler
    /\ UNCHANGED <<token, HandlerVars>>

NextHandler ==
    \/ PreHandleCall
    \/ GetEmbedTweetOk
    \/ GetEmbedTweetFail
    \/ PreHandleAssemble
    \/ PreHandleSettled
    \/ ShouldPreHandleCall
    \/ TweetIdFromStatusUrlCall

(***************************************************************************)
(* The scrape fetcher, getTweetIds.                                        *)
(*                                                                         *)
(* The page is the list of its time elements, each with the tag of its     *)
(* parent element (or none) and the parent's href attribute (or none).     *)
(***************************************************************************)
OtherChars == {"/", ".", ":", "#", "!", "-", "?", "=", "@", " "}
NonSlashChars == (WordChars \cup OtherChars) \ {"/"}

L_slash_status_slash == L_slash_status \o <<"/">>

\* the pattern of the in-page script: "/", one or more characters other than
\* "/" (group 1), "/status/", one or more digits (group 2); tried at i
HrefMatchAt(s, i) ==
    LET j1 == i + 1
        j2 == RunEnd(s, j1, NonSlashChars)
        j3 == j2 + Len(L_slash_status_slash)
        j4 == RunEnd(s, j3, Digits)
    IN  IF /\ LitAt(s, i, <<"/">>)
           /\ j2 > j1
           /\ LitAt(s, j2, L_slash_status_slash)
           /\ j4 > j3
        THEN <<SubSeq(s, i, j4 - 1), SubSeq(s, j1, j2 - 1), SubSeq(s, j3, j4 - 1)>>
        ELSE NoMatch

RECURSIVE HrefSearchFrom(_, _)
HrefSearchFrom(s, i) ==
    IF i > Len(s) THEN NoMatch
    ELSE LET m == HrefMatchAt(s, i)
         IN  IF m # NoMatch THEN m ELSE HrefSearchFrom(s, i + 1)

HrefMatch(href) == HrefSearchFrom(href, 1)

\* the loop over the time elements: the ids pushed, in document order
RECURSIVE CollectIds(_, _)
CollectIds(timeNodes, author) ==
    IF timeNodes = <<>> THEN <<>>
    ELSE LET timeNode == Head(timeNodes)
             rest == CollectIds(Tail(timeNodes), author)
             match == HrefMatch(timeNode.href)
         IN  IF timeNode.parentTag = "none" THEN rest          \* no parent element
             ELSE IF timeNode.parentTag = "SPAN" THEN rest
             ELSE IF timeNode.href = NoStr THEN rest             \* no href
             ELSE IF match = NoMatch THEN rest
             ELSE IF match[1 + 1] = author THEN <<match[2 + 1]>> \o rest
             ELSE rest

\* the script page.evaluate runs: the Show replies button, when there is
\* one, is clicked and the time elements are read after the settle delay
EvaluateScript(page, author) ==
    CollectIds(IF page.showReplies THEN page.expanded ELSE page.loaded, author)

A_alice == <<"a", "l", "_", "1">>
A_bob == <<"b", "o", "b">>
Authors == {A_alice, A_bob}

Href(user, id) == <<"/">> \o user \o L_slash_status_slash \o id

TimeNode(tag, href) == [parentTag |-> tag, href |-> href]

N_alice427 == TimeNode("A", Href(A_alice, <<"4", "2", "7">>))
N_alice430 == TimeNode("A", L_https \o L_twitter \o <<".", "c", "o", "m">>
                            \o Href(A_alice, <<"4", "3", "0">>))
N_bob428 == TimeNode("A", Href(A_bob, <<"4", "2", "8">>))
N_span == TimeNode("SPAN", NoStr)
N_orphan == TimeNode("none", NoStr)
N_nohref == TimeNode("A", NoStr)
N_other == TimeNode("A", <<"/", "i", "/", "f", "l", "o", "w">>)

Pages ==
    { [showReplies |-> FALSE, loaded |-> <<>>, expanded |-> <<>>],
      [showReplies |-> FALSE,
       loaded |-> <<N_alice427, N_bob428, N_span, N_alice430>>,
       expanded |-> <<>>],
      [showReplies |-> TRUE,
       loaded |-> <<N_alice427>>,
       expanded |-> <<N_alice430, N_orphan, N_nohref, N_other, N_alice427, N_alice430>>] }

\* the calls of getTweetIds that may be in progress at once
MaxProcs == 2
\* the calls of getTweetIds started in one run
MaxCalls == 2

Procs == 1 .. MaxProcs

NoOutcome == [kind |-> "none", ids |-> <<>>]

\* getTweetIds(browser, tweetId, author) is called
GetTweetIdsCall ==
  \E p \in Procs :
    /\ sPc[p] = "idle"
    /\ sStarted < MaxCalls
    /\ sStarted' = sStarted + 1
    /\ \E a \in Authors : sAuthor' = [sAuthor EXCEPT ![p] = a]
    /\ sPc' = [sPc EXCEPT ![p] = "createContext"]
    /\ sCtx' = [sCtx EXCEPT ![p] = 0]                 \* let context: undefined
    /\ sPending' = [sPending EXCEPT ![p] = NoOutcome]
    /\ sOut' = [sOut EXCEPT ![p] = NoOutcome]
    /\ UNCHANGED ctxs
    /\ UNCHANGED NotScrape

\* browser.createIncognitoBrowserContext() resolves with a new context
CreateContextOk ==
  \E p \in Procs :
    /\ sPc[p] = "createContext"
    /\ ctxs' = Append(ctxs, [state |-> "open", closes |-> 0,
                             closeFailed |-> FALSE, callDone |-> FALSE])
    /\ sCtx' = [sCtx EXCEPT ![p] = Len(ctxs) + 1]
    /\ sPc' = [sPc EXCEPT ![p] = "newPage"]
    /\ UNCHANGED <<sAuthor, sPending, sOut, sStarted>>
    /\ UNCHANGED NotScrape

\* an awaited call inside the try block rejects: control goes to catch
TryStepThrows ==
  \E p \in Procs :
    /\ sPc[p] \in {"createContext", "newPage", "setViewport", "goto", "evaluate"}
    /\ sPc' = [sPc EXCEPT ![p] = "catch"]
    /\ UNCHANGED <<sAuthor, sCtx, sPending, sOut, ctxs, sStarted>>
    /\ UNCHANGED NotScrape

\* context.newPage(), page.setViewport(), page.goto() resolve
TryStepOk ==
  \E p \in Procs :
    /\ sPc[p] \in {"newPage", "setViewport", "goto"}
    /\ sPc' = [sPc EXCEPT ![p] =
                 CASE sPc[p] = "newPage" -> "setViewport"
                   [] sPc[p] = "setViewport" -> "goto"
                   [] sPc[p] = "goto" -> "evaluate"]
    /\ UNCHANGED <<sAuthor, sCtx, sPending, sOut, ctxs, sStarted>>
    /\ UNCHANGED NotScrape

\* return await page.evaluate(...): the ids are the pending return value
EvaluateOk ==
  \E p \in Procs :
    /\ sPc[p] = "evaluate"
    /\ \E page \in Pages :
         sPending' = [sPending EXCEPT ![p] =
                        [kind |-> "returned", ids |-> EvaluateScript(page, sAuthor[p])]]
    /\ sPc' = [sPc EXCEPT ![p] = "finally"]
    /\ UNCHANGED <<sAuthor, sCtx, sOut, ctxs, sStarted>>
    /\ UNCHANGED NotScrape

\* catch (error): log it, return []
Catch ==
  \E p \in Procs :
    /\ sPc[p] = "catch"
    /\ sPending' = [sPending EXCEPT ![p] = [kind |-> "returned", ids |-> <<>>]]
    /\ sPc' = [sPc EXCEPT ![p] = "finally"]
    /\ UNCHANGED <<sAuthor, sCtx, sOut, ctxs, sStarted>>
    /\ UNCHANGED NotScrape

\* a finally block that does not close the context
FinallyWithoutClose ==
  \E p \in Procs :
    /\ sPc[p] = "finally"
    /\ sPc' = [sPc EXCEPT ![p] = "done"]
    /\ sOut' = [sOut EXCEPT ![p] = sPending[p]]
    /\ UNCHANGED <<sAuthor, sCtx, sPending, sStarted, ctxs>>
    /\ UNCHANGED NotScrape

\* finally: if (context) await context.close(); without a context the call
\* completes with the pending return value
Finally ==
  \E p \in Procs :
    /\ sPc[p] = "finally"
    /\ IF sCtx[p] # 0
       THEN /\ sPc' = [sPc EXCEPT ![p] = "close"]
            /\ ctxs' = [ctxs EXCEPT ![sCtx[p]].closes = @ + 1]
            /\ UNCHANGED sOut
       ELSE /\ sPc' = [sPc EXCEPT ![p] = "done"]
            /\ sOut' = [sOut EXCEPT ![p] = sPending[p]]
            /\ UNCHANGED ctxs
    /\ UNCHANGED <<sAuthor, sCtx, sPending, sStarted>>
    /\ UNCHANGED NotScrape

\* context.close() resolves: the context is disposed of and the call
\* completes with the pending return value
CloseOk ==
  \E p \in Procs :
    /\ sPc[p] = "close"
    /\ ctxs' = [ctxs EXCEPT ![sCtx[p]].state = "closed", ![sCtx[p]].callDone = TRUE]
    /\ sOut' = [sOut EXCEPT ![p] = sPending[p]]
    /\ sPc' = [sPc EXCEPT ![p] = "done"]
    /\ UNCHANGED <<sAuthor, sCtx, sPending, sStarted>>
    /\ UNCHANGED NotScrape

\* context.close() rejects (the browser is gone, say): whether the context
\* is disposed of is not known, and the rejection, raised inside finally,
\* replaces the pending return value: the call rejects
CloseThrows ==
  \E p \in Procs :
    /\ sPc[p] = "close"
    /\ \E st \in {"open", "closed"} :
         ctxs' = [ctxs EXCEPT ![sCtx[p]].state = st,
                              ![sCtx[p]].closeFailed = TRUE,
                              ![sCtx[p]].callDone = TRUE]
    /\ sOut' = [sOut EXCEPT ![p] = [kind |-> "threw", ids |-> <<>>]]
    /\ sPc' = [sPc EXCEPT ![p] = "done"]
    /\ UNCHANGED <<sAuthor, sCtx, sPending, sStarted>>
    /\ UNCHANGED NotScrape

\* the caller has taken the outcome
GetTweetIdsSettled ==
  \E p \in Procs :
    /\ sPc[p] = "done"
    /\ sPc' = [sPc EXCEPT ![p] = "idle"]
    /\ sAuthor' = [sAuthor EXCEPT ![p] = NoStr]
    /\ sCtx' = [sCtx EXCEPT ![p] = 0]
    /\ sPending' = [sPending EXCEPT ![p] = NoOutcome]
    /\ sOut' = [sOut EXCEPT ![p] = NoOutcome]
    /\ UNCHANGED <<ctxs, sStarted>>
    /\ UNCHANGED NotScrape

NextScrape ==
    \/ GetTweetIdsCall
    \/ CreateContextOk
    \/ TryStepThrows
    \/ TryStepOk
    \/ EvaluateOk
    \/ Catch
    \/ Finally
    \/ CloseOk
    \/ CloseThrows
    \/ GetTweetIdsSettled

(***************************************************************************)
(* The API fetchers (getTweetThread, getTweetById, getTweetsByIds) and the *)
(* two thread fetchers built on them (getRecentTweets, getOldTweets).      *)
(***************************************************************************)
\* the longest data array of an API response
MaxTweets == 3

Id427 == <<"4", "2", "7">>
Id428 == <<"4", "2", "8">>
Id430 == <<"4", "3", "0">>

\* the posts the API knows; created_at is the instant in time the
\* timestamp string denotes
TweetDatas ==
    { [id |-> Id427, author_id |-> "alice", created_at |-> 1,
       attachments |-> [has |-> TRUE, media_keys |-> {"m1"}]],
      [id |-> Id428, author_id |-> "bob", created_at |-> 2,
       attachments |-> [has |-> FALSE, media_keys |-> {}]],
      [id |-> Id430, author_id |-> "alice", created_at |-> 3,
       attachments |-> [has |-> TRUE, media_keys |-> {"m2", "m3"}]] }

Users == <<[id |-> "alice"], [id |-> "bob"]>>

\* includes of a response: media is optional
IncludesValues ==
    { [users |-> Users, hasMedia |-> FALSE, media |-> <<>>],
      [users |-> Users, hasMedia |-> TRUE,
       media |-> <<[media_key |-> "m1"], [media_key |-> "m2"]>>] }

SeqsUpTo(S, n) == UNION {[1 .. k -> S] : k \in 0 .. n}

\* the lists of at most MaxTweets posts out of datas, none of them twice
PostLists(datas) ==
    {d \in SeqsUpTo(datas, MaxTweets) :
        \A i, j \in 1 .. Len(d) : i # j => d[i].id # d[j].id}

TweetsResponsesOf(lists) ==
    { [data |-> d, includes |-> inc, meta |-> [result_count |-> Len(d)]] :
        d \in lists, inc \in IncludesValues }

\* what the recent search may answer: posts of the conversation, the
\* newest first ("tweets are in reverse chronological order in the thread")
SearchResponses ==
    TweetsResponsesOf({d \in PostLists(TweetDatas) :
        \A i, j \in 1 .. Len(d) : i < j => d[i].created_at > d[j].created_at})

\* what the bulk endpoint may answer: posts with the ids asked for (not
\* all of them need exist still), in an order the caller has no word on
BulkResponses(ids) ==
    TweetsResponsesOf(PostLists({t \in TweetDatas :
        \E i \in 1 .. Len(ids) : ids[i] = t.id}))

\* what the single-post endpoint may answer (a Tweet: data is one post)
TweetResponses ==
    { [data |-> <<t>>, includes |-> inc, meta |-> [result_count |-> 1]] :
        t \in TweetDatas, inc \in IncludesValues }

NoResponse == [data |-> <<>>, includes |-> [users |-> <<>>, hasMedia |-> FALSE, media |-> <<>>],
               meta |-> [result_count |-> -1]]

\* !TWITTER_BEARER_TOKEN: undefined and the empty string are falsy
TokenMissing(tok) == tok \in {Undefined, ""}

\* response.includes.media?.filter(m => t.attachments?.media_keys?.includes(m.media_key))
MediaOf(t, includes) ==
    SelectSeq(includes.media,
              LAMBDA m : t.attachments.has /\ m.media_key \in t.attachments.media_keys)

\* getTweetsFromResponse: one Tweet per element of response.data, in order
GetTweetsFromResponse(response) ==
    [i \in 1 .. Len(response.data) |->
        [data |-> response.data[i],
         includes |-> [users |-> response.includes.users,
                       hasMedia |-> response.includes.hasMedia,
                       media |-> MediaOf(response.data[i], response.includes)]]]

\* the list left in the order of the response
NotReversed(s) == s

\* Array.prototype.reverse
Reverse(s) == [i \in 1 .. Len(s) |-> s[Len(s) + 1 - i]]

ApiFns == {"getTweetThread", "getTweetById", "getTweetsByIds"}
ThreadFns == ApiFns \cup {"getRecentTweets", "getOldTweets"}

\* the API fetcher a function ends up calling
ApiFnOf(fn) ==
    CASE fn = "getRecentTweets" -> "getTweetThread"
      [] fn = "getOldTweets" -> "getTweetsByIds"
      [] OTHER -> fn

NoResult == [kind |-> "none", error |-> "", tweets |-> <<>>]
Threw(e) == [kind |-> "threw", error |-> e, tweets |-> <<>>]
Returned(tw) == [kind |-> "returned", error |-> "", tweets |-> tw]

\* how a call of getTweetIds can end, as getOldTweets sees it: the ids of
\* some page, [] after a caught error, or the rejection of context.close()
GetTweetIdsOutcomes ==
    {[kind |-> "returned", ids |-> EvaluateScript(page, a)] : page \in Pages, a \in Authors}
    \cup {[kind |-> "returned", ids |-> <<>>], [kind |-> "threw", ids |-> <<>>]}

\* one of the five functions is called
ThreadCall ==
    /\ tPc = "idle"
    /\ \E fn \in ThreadFns :
         /\ tFn' = fn
         /\ tPc' = IF fn = "getOldTweets" THEN "getTweetIds" ELSE "checkToken"
         /\ tIds' = IF fn = "getTweetsByIds" THEN <<Id430, Id427>>
                    ELSE IF fn = "getTweetById" THEN <<Id427>> ELSE <<>>
    /\ UNCHANGED <<tResp, tOut, tReqs, tChecks>>
    /\ UNCHANGED NotThread

\* getOldTweets: await getTweetIds(...); no ids: return []
OldTweetsScrape ==
    /\ tPc = "getTweetIds"
    /\ \E o \in GetTweetIdsOutcomes :
         IF o.kind = "threw"
         THEN /\ tOut' = Threw("scrape")
              /\ tPc' = "done"
              /\ UNCHANGED tIds
         ELSE IF Len(o.ids) = 0
         THEN /\ tOut' = Returned(<<>>)
              /\ tPc' = "done"
              /\ UNCHANGED tIds
         ELSE /\ tIds' = o.ids
              /\ tPc' = "checkToken"
              /\ UNCHANGED tOut
    /\ UNCHANGED <<tFn, tResp, tReqs, tChecks>>
    /\ UNCHANGED NotThread

\* the request sent before the token is tested
CheckTokenAfterRequest ==
    /\ tPc = "checkToken"
    /\ TokenMissing(token)
    /\ tChecks' = tChecks + 1
    /\ tPc' = "request"
    /\ UNCHANGED <<tFn, tIds, tResp, tOut, tReqs>>
    /\ UNCHANGED NotThread

\* if (!TWITTER_BEARER_TOKEN) throw new Error('No Twitter bearer token found')
CheckTokenMissing ==
    /\ tPc = "checkToken"
    /\ TokenMissing(token)
    /\ tChecks' = tChecks + 1
    /\ tOut' = Threw("No Twitter bearer token found")
    /\ tPc' = "done"
    /\ UNCHANGED <<tFn, tIds, tResp, tReqs>>
    /\ UNCHANGED NotThread

CheckTokenPresent ==
    /\ tPc = "checkToken"
    /\ ~TokenMissing(token)
    /\ tChecks' = tChecks + 1
    /\ tPc' = "request"
    /\ UNCHANGED <<tFn, tIds, tResp, tOut, tReqs>>
    /\ UNCHANGED NotThread

\* axios.get resolves
RequestOk ==
    /\ tPc = "request"
    /\ tReqs' = tReqs + 1
    /\ \E r \in CASE ApiFnOf(tFn) = "getTweetById" -> TweetResponses
                  [] ApiFnOf(tFn) = "getTweetThread" -> SearchResponses
                  [] ApiFnOf(tFn) = "getTweetsByIds" -> BulkResponses(tIds) :
         tResp' = r
    /\ tPc' = "respond"
    /\ UNCHANGED <<tFn, tIds, tOut, tChecks>>
    /\ UNCHANGED NotThread

\* axios.get rejects; nothing catches, the function called rejects
RequestFail ==
    /\ tPc = "request"
    /\ tReqs' = tReqs + 1
    /\ tOut' = Threw("transport")
    /\ tPc' = "done"
    /\ UNCHANGED <<tFn, tIds, tResp, tChecks>>
    /\ UNCHANGED NotThread

\* getRecentTweets after getTweetThread has answered
RecentTweetsOf(thread) ==
    IF thread.meta.result_count = 0 THEN <<>>
    ELSE Reverse(GetTweetsFromResponse(thread))

\* getOldTweets after getTweetsByIds has answered
OldTweetsOf(response) == GetTweetsFromResponse(response)

\* the function returns: response.data for an API fetcher, the list of
\* Tweets for a thread fetcher
ThreadReturn ==
    /\ tPc = "respond"
    /\ tOut' = Returned(CASE tFn = "getRecentTweets" -> RecentTweetsOf(tResp)
                          [] tFn = "getOldTweets" -> OldTweetsOf(tResp)
                          [] OTHER -> tResp.data)
    /\ tPc' = "done"
    /\ UNCHANGED <<tFn, tIds, tResp, tReqs, tChecks>>
    /\ UNCHANGED NotThread

\* the caller has taken the outcome
ThreadSettled ==
    /\ tPc = "done"
    /\ tPc' = "idle"
    /\ tFn' = "none"
    /\ tIds' = <<>>
    /\ tResp' = NoResponse
    /\ tOut' = NoResult
    /\ tReqs' = 0
    /\ tChecks' = 0
    /\ UNCHANGED NotThread

NextThread ==
    \/ ThreadCall
    \/ OldTweetsScrape
    \/ CheckTokenMissing
    \/ CheckTokenPresent
    \/ RequestOk
    \/ RequestFail
    \/ ThreadReturn
    \/ ThreadSettled

(***************************************************************************)
(* The subscription service.                                               *)
(*                                                                         *)
(* An unsubscribe target (the List-Unsubscribe mailto value) is the        *)
(* sequence of its lexical tokens: a local part, "@", a host, "?",         *)
(* "subject=", a value.  " " is a space, which no host may hold.           *)
(***************************************************************************)
M_plain == <<"list", "@", "example.com">>
M_subject == <<"list", "@", "example.com", "?", "subject=", "Stop">>
M_bare_query == <<"list", "@", "example.com", "?">>
M_no_at == <<"list">>
M_only_query == <<"?", "subject=", "Stop">>
M_bad_host == <<"list", "@", "example", " ", "com">>
M_no_host == <<"list", "@">>

\* the position of the first (last) token equal to c in s, 0 when there is none
FirstIndex(s, c) ==
    IF \E i \in 1 .. Len(s) : s[i] = c
    THEN CHOOSE i \in 1 .. Len(s) : s[i] = c /\ \A j \in 1 .. i - 1 : s[j] # c
    ELSE 0

LastIndex(s, c) ==
    IF \E i \in 1 .. Len(s) : s[i] = c
    THEN CHOOSE i \in 1 .. Len(s) : s[i] = c /\ \A j \in i + 1 .. Len(s) : s[j] # c
    ELSE 0

\* the authority of mailto://s: what precedes the query
UrlAuthority(s) ==
    IF FirstIndex(s, "?") = 0 THEN s ELSE SubSeq(s, 1, FirstIndex(s, "?") - 1)

\* its host: what follows the last "@" of the authority
UrlHost(s) ==
    LET auth == UrlAuthority(s)
    IN  SubSeq(auth, LastIndex(auth, "@") + 1, Len(auth))

\* new URL(`mailto://${s}`) throws: credentials without a host, or a host
\* with a forbidden character
UrlThrows(s) ==
    \/ LastIndex(UrlAuthority(s), "@") # 0 /\ UrlHost(s) = <<>>
    \/ \E i \in 1 .. Len(UrlHost(s)) : UrlHost(s)[i] = " "

\* parsed.search: the query with its "?", empty when nothing follows the "?"
UrlSearch(s) ==
    LET q == FirstIndex(s, "?")
    IN  IF q = 0 \/ q = Len(s) THEN <<>> ELSE SubSeq(s, q, Len(s))

\* parsed.searchParams.get('subject') || 'Unsubscribe'
SubjectOf(s) ==
    LET search == UrlSearch(s)
    IN  IF Len(search) >= 3 /\ search[2] = "subject=" THEN search[3] ELSE "Unsubscribe"

\* unsubscribeMailTo.replace(parsed.search, ''): the query starts at the
\* first "?", so this is where its first occurrence is
MailToAddress(s) ==
    IF UrlSearch(s) = <<>> THEN s ELSE SubSeq(s, 1, FirstIndex(s, "?") - 1)

\* parseUnsubscribeMailTo: ok is FALSE when it throws
ParseUnsubscribeMailTo(s) ==
    LET to == MailToAddress(s)
    IN  IF UrlThrows(s) THEN [ok |-> FALSE, to |-> <<>>, subject |-> ""]
        ELSE IF to = <<>> \/ FirstIndex(to, "@") = 0
        THEN [ok |-> FALSE, to |-> <<>>, subject |-> ""]
        ELSE [ok |-> TRUE, to |-> to, subject |-> SubjectOf(s)]

\* the saveSubscription calls that may be in progress at once
MaxSavers == 2
\* the Subscription rows inserted in one run
MaxRows == 2

Savers == 1 .. MaxSavers
Names == {"Daily", "Weekly"}
UserIds == {"u1"}

NoInput == [name |-> "", userId |-> "", unsubscribeMailTo |-> NoStr]

\* the rows a findOne with where {name, type: Newsletter, user: {id}} may return
NewsletterRows(name, userId) ==
    {i \in 1 .. Len(subs) :
        /\ subs[i].name = name
        /\ subs[i].userId = userId
        /\ subs[i].type = "NEWSLETTER"}

\* saveSubscription({userId, name, unsubscribeMailTo, ...}) is called
SaveSubscriptionCall(Q, N, M) ==
  \E q \in Q :
    /\ svPc[q] = "idle"
    /\ \E n \in N, u \in UserIds, m \in M :
         svIn' = [svIn EXCEPT ![q] = [name |-> n, userId |-> u, unsubscribeMailTo |-> m]]
    /\ svPc' = [svPc EXCEPT ![q] = "find"]
    /\ UNCHANGED <<svExisting, svRet, subs, UnsubVars>>
    /\ UNCHANGED NotSubs

\* const existingSubscription = await getSubscriptionByName(name, userId):
\* a query of its own, before the transaction begins
GetSubscriptionByName(Q) ==
  \E q \in Q :
    /\ svPc[q] = "find"
    /\ LET rows == NewsletterRows(svIn[q].name, svIn[q].userId)
       IN  IF rows = {} THEN svExisting' = [svExisting EXCEPT ![q] = 0]
           ELSE \E i \in rows : svExisting' = [svExisting EXCEPT ![q] = i]
    /\ svPc' = [svPc EXCEPT ![q] = "transaction"]
    /\ UNCHANGED <<svIn, svRet, subs, UnsubVars>>
    /\ UNCHANGED NotSubs

\* the transaction: update the row found before it, or save a new one;
\* the id of either is returned
SaveTransaction(Q) ==
  \E q \in Q :
    /\ svPc[q] = "transaction"
    /\ IF svExisting[q] # 0
       THEN /\ subs' = [subs EXCEPT ![svExisting[q]].unsubscribeMailTo =
                                       svIn[q].unsubscribeMailTo]
            /\ svRet' = [svRet EXCEPT ![q] = svExisting[q]]
       ELSE /\ Len(subs) < MaxRows
            /\ subs' = Append(subs, [name |-> svIn[q].name,
                                     userId |-> svIn[q].userId,
                                     type |-> "NEWSLETTER",
                                     status |-> "ACTIVE",
                                     unsubscribeMailTo |-> svIn[q].unsubscribeMailTo])
            /\ svRet' = [svRet EXCEPT ![q] = Len(subs) + 1]
    /\ svPc' = [svPc EXCEPT ![q] = "done"]
    /\ UNCHANGED <<svIn, svExisting, UnsubVars>>
    /\ UNCHANGED NotSubs

\* the caller has taken the id
SaveSubscriptionSettled(Q) ==
  \E q \in Q :
    /\ svPc[q] = "done"
    /\ svPc' = [svPc EXCEPT ![q] = "idle"]
    /\ svIn' = [svIn EXCEPT ![q] = NoInput]
    /\ svExisting' = [svExisting EXCEPT ![q] = 0]
    /\ svRet' = [svRet EXCEPT ![q] = 0]
    /\ UNCHANGED <<subs, UnsubVars>>
    /\ UNCHANGED NotSubs

\* createRssSubscriptions: a row of another type, which may bear the name
\* of a newsletter
CreateRssSubscription(N) ==
    /\ Len(subs) < MaxRows
    /\ \E n \in N, u \in UserIds :
         subs' = Append(subs, [name |-> n, userId |-> u, type |-> "RSS",
                               status |-> "ACTIVE", unsubscribeMailTo |-> NoStr])
    /\ UNCHANGED <<svPc, svIn, svExisting, svRet, UnsubVars>>
    /\ UNCHANGED NotSubs

NoSubscription ==
    [id |-> 0, type |-> "", unsubscribeMailTo |-> NoStr, newsletterEmail |-> FALSE]

\* unsubscribe(subscription): the caller hands over a row it has loaded,
\* with or without its newsletterEmail relation
UnsubscribeCall ==
    /\ uPc = "idle"
    /\ \E i \in 1 .. Len(subs), rel \in BOOLEAN :
         /\ uSub' = [id |-> i, type |-> subs[i].type,
                     unsubscribeMailTo |-> subs[i].unsubscribeMailTo,
                     newsletterEmail |-> rel]
         /\ uPc' = IF /\ subs[i].type = "NEWSLETTER"
                      /\ subs[i].unsubscribeMailTo # NoStr
                      /\ rel
                   THEN "parse" ELSE "update"
    /\ UNCHANGED <<uSent, uEmail, SaveVars, subs>>
    /\ UNCHANGED NotSubs

\* sendUnsubscribeEmail: parseUnsubscribeMailTo returns or throws
ParseMailTo ==
    /\ uPc = "parse"
    /\ IF ParseUnsubscribeMailTo(uSub.unsubscribeMailTo).ok
       THEN /\ uPc' = "sendEmail"
            /\ UNCHANGED uEmail
       ELSE /\ uPc' = "catch"
            /\ uEmail' = "parse threw"
    /\ UNCHANGED <<uSub, uSent, SaveVars, subs>>
    /\ UNCHANGED NotSubs

\* sendEmail resolves with true: sendUnsubscribeEmail returns true
SendEmailTrue ==
    /\ uPc = "sendEmail"
    /\ uEmail' = "sent"
    /\ uSent' = "true"
    /\ uPc' = "update"
    /\ UNCHANGED <<uSub, SaveVars, subs>>
    /\ UNCHANGED NotSubs

\* sendEmail resolves with false: logged, sendUnsubscribeEmail returns false
SendEmailFalse ==
    /\ uPc = "sendEmail"
    /\ uEmail' = "sendEmail false"
    /\ uSent' = "false"
    /\ uPc' = "update"
    /\ UNCHANGED <<uSub, SaveVars, subs>>
    /\ UNCHANGED NotSubs

\* sendEmail rejects
SendEmailThrows ==
    /\ uPc = "sendEmail"
    /\ uEmail' = "sendEmail threw"
    /\ uPc' = "catch"
    /\ UNCHANGED <<uSub, uSent, SaveVars, subs>>
    /\ UNCHANGED NotSubs

\* a catch block that throws the error on: unsubscribe rejects
SendUnsubscribeEmailRethrow ==
    /\ uPc = "catch"
    /\ uPc' = "failed"
    /\ UNCHANGED <<uSub, uSent, uEmail, SaveVars, subs>>
    /\ UNCHANGED NotSubs

\* catch (error) of sendUnsubscribeEmail: logged, return false
SendUnsubscribeEmailCatch ==
    /\ uPc = "catch"
    /\ uSent' = "false"
    /\ uPc' = "update"
    /\ UNCHANGED <<uSub, uEmail, SaveVars, subs>>
    /\ UNCHANGED NotSubs

\* authTrx: update(subscription.id, {status: Unsubscribed})
UnsubscribeUpdate ==
    /\ uPc = "update"
    /\ subs' = [subs EXCEPT ![uSub.id].status = "UNSUBSCRIBED"]
    /\ uPc' = "done"
    /\ UNCHANGED <<uSub, uSent, uEmail, SaveVars>>
    /\ UNCHANGED NotSubs

\* the caller has taken the result (a rejection, had there been one)
UnsubscribeSettled ==
    /\ uPc \in {"done", "failed"}
    /\ uPc' = "idle"
    /\ uSub' = NoSubscription
    /\ uSent' = "none"
    /\ uEmail' = "none"
    /\ UNCHANGED <<SaveVars, subs>>
    /\ UNCHANGED NotSubs

\* concurrent saveSubscription calls, for either newsletter name
NextSave ==
    \/ SaveSubscriptionCall(Savers, Names, {NoStr, M_subject})
    \/ GetSubscriptionByName(Savers)
    \/ SaveTransaction(Savers)
    \/ SaveSubscriptionSettled(Savers)
    \/ CreateRssSubscription(Names)

\* unsubscribe, beside one saveSubscription call at a time that makes and
\* updates the rows of one newsletter with every kind of unsubscribe target
NextUnsub ==
    \/ SaveSubscriptionCall({1}, {"Daily"},
           {NoStr, M_plain, M_subject, M_bare_query, M_no_at, M_only_query,
            M_bad_host, M_no_host})
    \/ GetSubscriptionByName({1})
    \/ SaveTransaction({1})
    \/ SaveSubscriptionSettled({1})
    \/ CreateRssSubscription({"Daily"})
    \/ UnsubscribeCall
    \/ ParseMailTo
    \/ SendEmailTrue
    \/ SendEmailFalse
    \/ SendEmailThrows
    \/ SendUnsubscribeEmailCatch
    \/ UnsubscribeUpdate
    \/ UnsubscribeSettled

(***************************************************************************)
(* Initial state and specifications.                                       *)
(***************************************************************************)
\* process.env.TWITTER_BEARER_TOKEN: unset, set to the empty string, or set
TokenValues == {Undefined, "", "bearer-token"}

Init ==
    /\ token \in TokenValues
    /\ hPc = "idle"
    /\ hUrl = NoStr
    /\ hAge = 2
    /\ hEmbed = <<>>
    /\ hResult = <<>>
    /\ hInvoked = {}
    /\ pureCall = [fn |-> "none", url |-> NoStr, bool |-> FALSE, str |-> NoStr]
    /\ sPc = [p \in Procs |-> "idle"]
    /\ sAuthor = [p \in Procs |-> NoStr]
    /\ sCtx = [p \in Procs |-> 0]
    /\ sPending = [p \in Procs |-> NoOutcome]
    /\ sOut = [p \in Procs |-> NoOutcome]
    /\ ctxs = <<>>
    /\ sStarted = 0
    /\ tPc = "idle"
    /\ tFn = "none"
    /\ tIds = <<>>
    /\ tResp = NoResponse
    /\ tOut = NoResult
    /\ tReqs = 0
    /\ tChecks = 0
    /\ subs = <<>>
    /\ svPc = [q \in Savers |-> "idle"]
    /\ svIn = [q \in Savers |-> NoInput]
    /\ svExisting = [q \in Savers |-> 0]
    /\ svRet = [q \in Savers |-> 0]
    /\ uPc = "idle"
    /\ uSub = NoSubscription
    /\ uSent = "none"
    /\ uEmail = "none"

\* only the API fetchers read the token: the other specifications fix it
InitTokenSet == Init /\ token = "bearer-token"

SpecScrape == InitTokenSet /\ [][NextScrape]_vars

SpecThread == Init /\ [][NextThread]_vars

SpecSave == InitTokenSet /\ [][NextSave]_vars

SpecUnsub == InitTokenSet /\ [][NextUnsub]_vars

SpecHandler == InitTokenSet /\ [][NextHandler]_vars

(***************************************************************************)
(* The claims.                                                             *)
(***************************************************************************)
InvokedThreadFetchers == hInvoked \cap (RecentPath \cup OldPath)

C5_TwoOutcomes ==
    /\ hPc = "failed" => hEmbed = <<>> /\ hResult = <<>>
    /\ hEmbed # <<>> => hPc \in {"assemble", "done"}
    /\ hPc = "done" =>
          /\ hEmbed # <<>>
          /\ Len(hResult) = 1
          /\ hResult[1].url = hUrl
          /\ hResult[1].title # <<>>
          /\ hResult[1].content.body = hEmbed[1].html
    /\ hPc # "done" => hResult = <<>>

\* preHandle has returned for a url that is not the canonical one of the
\* oEmbed document
C5_Witness ==
    /\ hPc = "done"
    /\ hUrl # hEmbed[1].url
    /\ hResult[1].url = hUrl

\* the match starts where a host name or one of its labels starts
AtDomainStart(u, i) == i = 1 \/ u[i - 1] \in {"/", "."}

\* a url of the status shape on twitter.com or x.com
IsStatusUrl(u) ==
    \E i \in 1 .. Len(u) : MatchAt(u, i) # NoMatch /\ AtDomainStart(u, i)

\* C7: shouldPreHandle(url) is true exactly for the urls of the status
\* shape whose domain is twitter.com or x.com, and false for a url whose
\* domain only ends in twitter.com or x.com.
C7_ExactlyStatusUrls ==
    pureCall.fn = "shouldPreHandle" => pureCall.bool = IsStatusUrl(pureCall.url)

\* C9: tweetIdFromStatusUrl returns the digits that follow status/ or
\* statuses/ for a url shouldPreHandle accepts, and undefined for any other.
C9_ReturnsPostId ==
    pureCall.fn = "tweetIdFromStatusUrl" =>
        pureCall.str = IF ShouldPreHandle(pureCall.url)
                       THEN TWITTER_URL_MATCH(pureCall.url)[3 + 1]
                       ELSE NoStr

\* the contexts no call in progress holds
Unheld == {i \in 1 .. Len(ctxs) : \A p \in Procs : sCtx[p] # i}

\* every call holds a context of its own, none of a finished call
OwnFreshContext ==
    /\ \A p, q \in Procs : p # q /\ sCtx[p] # 0 => sCtx[p] # sCtx[q]
    /\ \A p \in Procs :
          sCtx[p] # 0 /\ sPc[p] # "done" => ~ctxs[sCtx[p]].callDone

C4_NeverThrows ==
    \A p \in Procs : sPc[p] = "done" => sOut[p].kind = "returned"

CreatedAt(tweets) == [i \in 1 .. Len(tweets) |-> tweets[i].data.created_at]
IdsOf(tweets) == [i \in 1 .. Len(tweets) |-> tweets[i].data.id]

Ascending(ts) == \A i, j \in 1 .. Len(ts) : i < j => ts[i] <= ts[j]
NoRepeat(xs) == \A i, j \in 1 .. Len(xs) : i # j => xs[i] # xs[j]

ThreadReturned(fn) == tPc = "done" /\ tFn = fn /\ tOut.kind = "returned"

C6_NoRequestWithoutToken ==
    TokenMissing(token) =>
        /\ tReqs = 0
        /\ tChecks <= 1
        /\ tPc \notin {"request", "respond"}
        /\ tPc = "done" /\ tFn \in ApiFns \cup {"getRecentTweets"} => tChecks = 1
        /\ tPc = "done" /\ tChecks = 1 => tOut = Threw("No Twitter bearer token found")

\* getTweetThread has thrown the configuration error, the token being unset
C6_Witness ==
    /\ token = Undefined
    /\ tPc = "done"
    /\ tFn = "getTweetThread"
    /\ tOut.kind = "threw"
    /\ tReqs = 0

\* C8: unsubscribe never fails over the unsubscribe email: a malformed
\* target, sendEmail returning false and sendEmail throwing each make
\* sendUnsubscribeEmail return false, and the call goes on to set the
\* row's status to Unsubscribed.
C8_UpdateWhateverTheEmail ==
    /\ uPc # "failed"
    /\ uPc = "done" => subs[uSub.id].status = "UNSUBSCRIBED"
    /\ uPc \in {"update", "done"}
         /\ uEmail \in {"parse threw", "sendEmail false", "sendEmail threw"}
         => uSent = "false"

\* unsubscribe has updated the row although the target did not parse as a
\* url
C8_Witness ==
    /\ uPc = "done"
    /\ uEmail = "parse threw"
    /\ UrlThrows(uSub.unsubscribeMailTo)
    /\ subs[uSub.id].status = "UNSUBSCRIBED"

\* C10: there is never more than one newsletter row for a name and a user.
C10_OneRowPerName ==
    \A n \in Names, u \in UserIds : Cardinality(NewsletterRows(n, u)) <= 1

=============================================================================
